---- MODULE Spec2Model ----
(***************************************************************************)
(* Bank of America export -> QFX converter (src/bofa_qfx_converter.py).    *)
(*                                                                         *)
(* Text is a sequence of one-character strings, so that lower(), strip(),  *)
(* replace(), the substring test, float() and the date parse are computed  *)
(* character by character as the Python code computes them.                *)
(*                                                                         *)
(* A file is its extension and its lines, each line the sequence of its    *)
(* fields under the delimiter that detect_delimiter selected.  A cell is   *)
(* NaN, a string or a number (in cents: the inputs carry at most two       *)
(* fractional digits).                                                     *)
(*                                                                         *)
(* Two specifications share the module: SpecDelim applies detect_delimiter *)
(* to every sample text up to MaxSample characters; Spec runs the upload   *)
(* handler (parse_bofa_file, then convert_to_qfx row by row) on every file *)
(* of the input families below.                                            *)
(***************************************************************************)
EXTENDS Integers, Sequences, FiniteSets, TLC

VARIABLES sample, delimiter, file, pc, error, raw_df, header_row_index, df, i,
          transaction_count, skipped_rows, qfx

vars == <<sample, delimiter, file, pc, error, raw_df, header_row_index, df, i,
          transaction_count, skipped_rows, qfx>>

\* Bounds of the model.
MaxSample == 7
MaxLines == 3
MaxRows == 3

(***************************************************************************)
(* Python's str operations.                                                *)
(***************************************************************************)
UpperChars == <<"A","B","C","D","E","F","G","H","I","J","K","L","M","N","O","P","Q","R","S","T","U","V","W","X","Y","Z">>
LowerChars == <<"a","b","c","d","e","f","g","h","i","j","k","l","m","n","o","p","q","r","s","t","u","v","w","x","y","z">>
Digits == <<"0","1","2","3","4","5","6","7","8","9">>

\* str.lower() on one character.
lower_char(c) ==
    IF \E k \in 1..26 : UpperChars[k] = c
    THEN LowerChars[CHOOSE k \in 1..26 : UpperChars[k] = c]
    ELSE c

\* str.lower()
str_lower(s) == [k \in 1..Len(s) |-> lower_char(s[k])]

\* str.strip(): leading and trailing whitespace removed.
IsSpace(c) == c = " " \/ c = "\t"

RECURSIVE str_lstrip(_)
str_lstrip(s) == IF s # <<>> /\ IsSpace(Head(s)) THEN str_lstrip(Tail(s)) ELSE s

RECURSIVE str_rstrip(_)
str_rstrip(s) ==
    IF s # <<>> /\ IsSpace(s[Len(s)]) THEN str_rstrip(SubSeq(s, 1, Len(s) - 1)) ELSE s

str_strip(s) == str_rstrip(str_lstrip(s))

\* `sub in s`
Contains(sub, s) ==
    \E k \in 0..(Len(s) - Len(sub)) : SubSeq(s, k + 1, k + Len(sub)) = sub

\* re.match('^' + prefix, s)
StartsWith(prefix, s) ==
    Len(s) >= Len(prefix) /\ SubSeq(s, 1, Len(prefix)) = prefix

\* s.replace(old, new) for a one-character old.
RECURSIVE str_replace(_, _, _)
str_replace(s, old, new) ==
    IF s = <<>> THEN <<>>
    ELSE (IF Head(s) = old THEN new ELSE <<Head(s)>>)
         \o str_replace(Tail(s), old, new)

\* s.count(ch)
str_count(s, ch) == Cardinality({k \in 1..Len(s) : s[k] = ch})

IsDigit(c) == \E k \in 1..10 : Digits[k] = c

DigitVal(c) == (CHOOSE k \in 1..10 : Digits[k] = c) - 1

AllDigits(s) == \A k \in 1..Len(s) : IsDigit(s[k])

\* int() of a digit string.
RECURSIVE IntOf(_)
IntOf(s) ==
    IF s = <<>> THEN 0
    ELSE IntOf(SubSeq(s, 1, Len(s) - 1)) * 10 + DigitVal(s[Len(s)])

\* str() of a natural number.
RECURSIVE IntStr(_)
IntStr(n) ==
    IF n < 10 THEN <<Digits[n + 1]>>
    ELSE IntStr(n \div 10) \o <<Digits[(n % 10) + 1]>>

(***************************************************************************)
(* Cell values: None (a missing column), NaN, a string, a number.          *)
(***************************************************************************)
None == [k |-> "none", s |-> <<>>, c |-> 0]
NaN == [k |-> "nan", s |-> <<>>, c |-> 0]
StrV(s) == [k |-> "str", s |-> s, c |-> 0]
NumV(c) == [k |-> "num", s |-> <<>>, c |-> c]

\* float(s): an optional sign, digits, an optional point and digits.  The
\* value is in cents.
NotFloat == [ok |-> FALSE, c |-> 0]

\* The fraction's first two digits, as cents.
FracCents(fp) ==
    IF Len(fp) = 0 THEN 0
    ELSE IF Len(fp) = 1 THEN DigitVal(fp[1]) * 10
    ELSE IntOf(fp)

FloatOf(ip, fp) ==
    IF AllDigits(ip) /\ AllDigits(fp) /\ Len(ip) + Len(fp) >= 1 /\ Len(fp) <= 2
    THEN [ok |-> TRUE, c |-> IntOf(ip) * 100 + FracCents(fp)]
    ELSE NotFloat

\* The position of the first point, or one past the end.
DotAt(body) ==
    IF \E k \in 1..Len(body) : body[k] = "."
    THEN CHOOSE k \in 1..Len(body) : body[k] = "." /\ \A j \in 1..(k - 1) : body[j] # "."
    ELSE Len(body) + 1

SplitAt(body, dot) == FloatOf(SubSeq(body, 1, dot - 1), SubSeq(body, dot + 1, Len(body)))

ParseUnsigned(body) == SplitAt(body, DotAt(body))

Negated(r) == [r EXCEPT !.c = 0 - r.c]

ParseStripped(s) ==
    IF s # <<>> /\ s[1] = "-" THEN Negated(ParseUnsigned(Tail(s)))
    ELSE IF s # <<>> /\ s[1] = "+" THEN ParseUnsigned(Tail(s))
    ELSE ParseUnsigned(s)

ParseFloat(s) == ParseStripped(str_strip(s))

\* str() of a float: the sign, the integer part, and the fraction without
\* trailing zeros (at least one digit).
FloatStr(c) ==
    LET mag == IF c < 0 THEN 0 - c ELSE c
        fr == mag % 100
    IN  (IF c < 0 THEN <<"-">> ELSE <<>>) \o IntStr(mag \div 100) \o <<".">>
        \o (IF fr % 10 = 0 THEN IntStr(fr \div 10)
            ELSE <<Digits[(fr \div 10) + 1], Digits[(fr % 10) + 1]>>)

\* f"{amount:.2f}"
Format2f(c) ==
    LET mag == IF c < 0 THEN 0 - c ELSE c
        fr == mag % 100
    IN  (IF c < 0 THEN <<"-">> ELSE <<>>) \o IntStr(mag \div 100) \o <<".">>
        \o <<Digits[(fr \div 10) + 1], Digits[(fr % 10) + 1]>>

\* str(value)
PyStr(v) ==
    CASE v.k = "none" -> <<"N","o","n","e">>
      [] v.k = "nan" -> <<"n","a","n">>
      [] v.k = "str" -> v.s
      [] OTHER -> FloatStr(v.c)

\* bool(value): None, 0 and '' are false; NaN is true.
Truthy(v) ==
    CASE v.k = "none" -> FALSE
      [] v.k = "nan" -> TRUE
      [] v.k = "str" -> v.s # <<>>
      [] OTHER -> v.c # 0

\* a or b
PyOr(a, b) == IF Truthy(a) THEN a ELSE b

\* pd.isna(value)
IsNa(v) == v.k = "none" \/ v.k = "nan"

(***************************************************************************)
(* detect_delimiter                                                        *)
(***************************************************************************)
tab_count(smp) == str_count(smp, "\t")
semicolon_count(smp) == str_count(smp, ";")
comma_count(smp) == str_count(smp, ",")

\* Variant of detect_delimiter whose last branch returns the comma.
detect_delimiter_comma(smp) ==
    IF tab_count(smp) > 5 THEN "\t"
    ELSE IF semicolon_count(smp) > comma_count(smp) THEN ";"
    ELSE IF comma_count(smp) > tab_count(smp) /\ tab_count(smp) = 0 THEN ","
    ELSE ","

detect_delimiter(smp) ==
    IF tab_count(smp) > 5 THEN "\t"
    ELSE IF semicolon_count(smp) > comma_count(smp) THEN ";"
    ELSE IF comma_count(smp) > tab_count(smp) /\ tab_count(smp) = 0 THEN ","
    ELSE "\t"

(***************************************************************************)
(* The pandas readers, as parse_bofa_file uses them.  A grid row keeps the *)
(* number of the content line it was read from (line) and its index label  *)
(* (idx) beside its cells.                                                 *)
(***************************************************************************)
Max(a, b) == IF a >= b THEN a ELSE b
Min(a, b) == IF a <= b THEN a ELSE b

\* A short row is filled with empty fields up to the table's width.
Pad(cells, width) ==
    [j \in 1..width |-> IF j <= Len(cells) THEN cells[j] ELSE <<>>]

Numbered(lines) == [n \in 1..Len(lines) |-> [line |-> n, cells |-> lines[n]]]

\* on_bad_lines='skip': a line with more fields than the table is dropped.
SkipBadLines(rows, width) == SelectSeq(rows, LAMBDA r : Len(r.cells) <= width)

PadRows(rows, width) ==
    [n \in 1..Len(rows) |-> [line |-> rows[n].line, cells |-> Pad(rows[n].cells, width)]]

\* read_csv infers each column's type: numbers when every non-empty field
\* of the column is a number, strings otherwise; an empty field is NaN.
ColumnIsNumeric(rows, j) ==
    \A n \in 1..Len(rows) :
        rows[n].cells[j] = <<>> \/ ParseFloat(rows[n].cells[j]).ok

NumericColumns(rows, width) == [j \in 1..width |-> ColumnIsNumeric(rows, j)]

CsvCell(text, numeric) ==
    IF text = <<>> THEN NaN
    ELSE IF numeric THEN NumV(ParseFloat(text).c)
    ELSE StrV(text)

CsvTypedAs(rows, width, numeric) ==
    [n \in 1..Len(rows) |->
        [line |-> rows[n].line,
         idx |-> n - 1,
         cells |-> [j \in 1..width |-> CsvCell(rows[n].cells[j], numeric[j])]]]

CsvTyped(rows, width) == CsvTypedAs(rows, width, NumericColumns(rows, width))

\* A spreadsheet cell carries its own type.
ExcelNumber(text, number) == IF number.ok THEN NumV(number.c) ELSE StrV(text)

ExcelCell(text) == IF text = <<>> THEN NaN ELSE ExcelNumber(text, ParseFloat(text))

ExcelTyped(rows, width) ==
    [n \in 1..Len(rows) |->
        [line |-> rows[n].line,
         idx |-> n - 1,
         cells |-> [j \in 1..width |-> ExcelCell(rows[n].cells[j])]]]

\* pd.read_csv(..., header=None, on_bad_lines='skip'): the first line sets
\* the width.
CsvRows(rows, width) == CsvTyped(PadRows(SkipBadLines(rows, width), width), width)

read_csv_raw(content) == CsvRows(Numbered(content), Len(content[1]))

\* pd.read_excel(file, header=None): every row of the sheet, as wide as the
\* widest.
RECURSIVE SheetWidth(_)
SheetWidth(lines) ==
    IF lines = <<>> THEN 0 ELSE Max(Len(Head(lines)), SheetWidth(Tail(lines)))

ExcelRows(rows, width) == ExcelTyped(PadRows(rows, width), width)

read_excel_raw(lines) == ExcelRows(Numbered(lines), SheetWidth(lines))

\* A header cell's column name: str(col).strip().lower().replace(" ", "_"),
\* pandas naming an empty header cell "Unnamed: <position>".
HeaderText(cell, j) ==
    IF cell.k = "nan" THEN <<"U","n","n","a","m","e","d",":"," ">> \o IntStr(j - 1) ELSE PyStr(cell)

ColumnName(cell, j) == str_replace(str_lower(str_strip(HeaderText(cell, j))), " ", <<"_">>)

\* pd.read_csv(..., skiprows=n, on_bad_lines='skip'): the first line left is
\* the header line and sets the width.
CsvTable(header, data, width) ==
    [header_line |-> header.line,
     columns |-> [j \in 1..width |-> ColumnName(CsvCell(header.cells[j], FALSE), j)],
     rows |-> CsvRows(data, width)]

CsvTableOf(rest) == CsvTable(rest[1], Tail(rest), Len(rest[1].cells))

read_csv_header(content, skiprows) ==
    CsvTableOf(SubSeq(Numbered(content), skiprows + 1, Len(content)))

\* pd.read_excel(file, skiprows=n)
ExcelTable(header, data, width) ==
    [header_line |-> header.line,
     columns |-> [j \in 1..width |-> ColumnName(ExcelCell(header.cells[j]), j)],
     rows |-> ExcelTyped(data, width)]

ExcelTableOf(rest, width) == ExcelTable(rest[1], Tail(rest), width)

read_excel_header(lines, skiprows) ==
    ExcelTableOf(SubSeq(PadRows(Numbered(lines), SheetWidth(lines)), skiprows + 1, Len(lines)),
                 SheetWidth(lines))

\* df.dropna(how='all')
HasValue(cells) == \E j \in 1..Len(cells) : cells[j].k # "nan"

dropna_all(frame) ==
    [frame EXCEPT !.rows = SelectSeq(frame.rows, LAMBDA r : HasValue(r.cells))]

\* df.loc[:, ~df.columns.str.contains('^unnamed', case=False) | df.notna().any()]
KeepColumn(frame, j) ==
    \/ ~StartsWith(<<"u","n","n","a","m","e","d">>, str_lower(frame.columns[j]))
    \/ \E n \in 1..Len(frame.rows) : frame.rows[n].cells[j].k # "nan"

Project(frame, cols) ==
    [frame EXCEPT
        !.columns = [m \in 1..Len(cols) |-> frame.columns[cols[m]]],
        !.rows = [n \in 1..Len(frame.rows) |->
                     [frame.rows[n] EXCEPT
                         !.cells = [m \in 1..Len(cols) |-> frame.rows[n].cells[cols[m]]]]]]

drop_empty_unnamed(frame) ==
    Project(frame, SelectSeq([j \in 1..Len(frame.columns) |-> j],
                             LAMBDA j : KeepColumn(frame, j)))

(***************************************************************************)
(* find_transaction_header                                                 *)
(***************************************************************************)
NoHeader == 0 - 1

\* row.astype(str).str.strip().str.lower().tolist()
row_lower(cells) == [j \in 1..Len(cells) |-> str_lower(str_strip(PyStr(cells[j])))]

has_date(cells) ==
    \E j \in 1..Min(2, Len(cells)) : Contains(<<"d","a","t","e">>, str_lower(row_lower(cells)[j]))

\* Variant of has_amount that does not exclude 'summary'.
has_amount_any(cells) ==
    \E j \in 1..Len(cells) : Contains(<<"a","m","o","u","n","t">>, str_lower(row_lower(cells)[j]))

has_amount(cells) ==
    \E j \in 1..Len(cells) :
        /\ Contains(<<"a","m","o","u","n","t">>, str_lower(row_lower(cells)[j]))
        /\ ~Contains(<<"s","u","m","m","a","r","y">>, str_lower(row_lower(cells)[j]))

IsHeaderRow(cells) == has_date(cells) /\ has_amount(cells)

\* Variant of the loop that ends with `return 0` on a grid that has rows.
RECURSIVE HeaderFromOrZero(_, _)
HeaderFromOrZero(rows, n) ==
    IF n > Len(rows) THEN (IF rows = <<>> THEN NoHeader ELSE 0)
    ELSE IF IsHeaderRow(rows[n].cells) THEN rows[n].idx
    ELSE HeaderFromOrZero(rows, n + 1)

\* The loop over df.iterrows() from row n on: the first qualifying row's
\* index, or None.
RECURSIVE HeaderFrom(_, _)
HeaderFrom(rows, n) ==
    IF n > Len(rows) THEN NoHeader
    ELSE IF IsHeaderRow(rows[n].cells) THEN rows[n].idx
    ELSE HeaderFrom(rows, n + 1)

find_transaction_header(rows) == HeaderFrom(rows, 1)

(***************************************************************************)
(* parse_bofa_file: [error, raw_df, header_row_index, df]                  *)
(***************************************************************************)
\* file.name.split('.')[-1].lower()
file_type(f) == str_lower(f.ext)

IsExcel(f) == file_type(f) \in {<<"x","l","s">>, <<"x","l","s","x">>}

\* Lines that are only whitespace are dropped from the content.
IsBlankLine(l) == Len(l) <= 1 /\ \A j \in 1..Len(l) : str_strip(l[j]) = <<>>

cleaned_lines(lines) == SelectSeq(lines, LAMBDA l : ~IsBlankLine(l))

HeaderMissing(h) == h = NoHeader

NoFrame == [header_line |-> 0, columns |-> <<>>, rows |-> <<>>]

ReadError == [error |-> "read", raw_df |-> <<>>, header_row_index |-> NoHeader, df |-> NoFrame]

HeaderError(raw) ==
    [error |-> "header", raw_df |-> raw, header_row_index |-> NoHeader, df |-> NoFrame]

Table(raw, h, frame) == [error |-> "", raw_df |-> raw, header_row_index |-> h, df |-> frame]

\* The CSV branch.
csv_from_header(content, raw, h) ==
    IF HeaderMissing(h) THEN HeaderError(raw)
    ELSE Table(raw, h, drop_empty_unnamed(dropna_all(read_csv_header(content, h))))

csv_from_raw(content, raw) == csv_from_header(content, raw, find_transaction_header(raw))

csv_from_content(content) ==
    IF content = <<>> THEN ReadError ELSE csv_from_raw(content, read_csv_raw(content))

parse_csv(f) == csv_from_content(cleaned_lines(f.lines))

\* The Excel branch.
excel_from_header(lines, raw, h) ==
    IF HeaderMissing(h) THEN HeaderError(raw)
    ELSE Table(raw, h, dropna_all(read_excel_header(lines, h)))

excel_from_raw(lines, raw) == excel_from_header(lines, raw, find_transaction_header(raw))

parse_excel(f) == excel_from_raw(f.lines, read_excel_raw(f.lines))

parse_bofa_file(f) == IF IsExcel(f) THEN parse_excel(f) ELSE parse_csv(f)

(***************************************************************************)
(* convert_to_qfx: one pass of the loop over df.iterrows().                *)
(***************************************************************************)
\* The position of the first column of that name, or 0.
ColumnAt(columns, name) ==
    IF \E j \in 1..Len(columns) : columns[j] = name
    THEN CHOOSE j \in 1..Len(columns) :
             columns[j] = name /\ \A m \in 1..(j - 1) : columns[m] # name
    ELSE 0

CellAt(cells, j) == IF j = 0 THEN None ELSE cells[j]

\* row.get(name): the cell under the first column of that name, or None.
RowGet(columns, cells, name) == CellAt(cells, ColumnAt(columns, name))

DaysIn(month, year) ==
    IF month \in {4, 6, 9, 11} THEN 30
    ELSE IF month = 2
         THEN (IF year % 4 = 0 /\ (year % 100 # 0 \/ year % 400 = 0) THEN 29 ELSE 28)
    ELSE 31

NaT == [ok |-> FALSE, ymd |-> <<>>]

\* pd.to_datetime(text, errors='coerce') on NN/NN/NNNN: month first, day
\* first when the first number is no month; any other text of the inputs
\* is no date (NaT).
DateOf(mm, dd, yyyy, m, d, y) ==
    IF m \in 1..12 /\ d \in 1..DaysIn(m, y)
    THEN [ok |-> TRUE, ymd |-> yyyy \o mm \o dd]
    ELSE IF d \in 1..12 /\ m \in 1..DaysIn(d, y)
    THEN [ok |-> TRUE, ymd |-> yyyy \o dd \o mm]
    ELSE NaT

ParseDateText(s) ==
    IF /\ Len(s) = 10 /\ s[3] = "/" /\ s[6] = "/"
       /\ AllDigits(SubSeq(s, 1, 2)) /\ AllDigits(SubSeq(s, 4, 5))
       /\ AllDigits(SubSeq(s, 7, 10))
    THEN DateOf(SubSeq(s, 1, 2), SubSeq(s, 4, 5), SubSeq(s, 7, 10),
                IntOf(SubSeq(s, 1, 2)), IntOf(SubSeq(s, 4, 5)), IntOf(SubSeq(s, 7, 10)))
    ELSE NaT

\* pd.to_datetime(date_value, errors='coerce') followed by
\* date.strftime('%Y%m%d'); a number counts nanoseconds from the epoch.
to_datetime(v) ==
    CASE v.k = "str" -> ParseDateText(str_strip(v.s))
      [] v.k = "num" -> [ok |-> TRUE,
                         ymd |-> IF v.c < 0 THEN <<"1","9","6","9","1","2","3","1">> ELSE <<"1","9","7","0","0","1","0","1">>]
      [] OTHER -> NaT

SummaryWords == {<<"b","e","g","i","n","n","i","n","g">>, <<"e","n","d","i","n","g">>, <<"b","a","l","a","n","c","e">>, <<"t","o","t","a","l">>, <<"s","u","m","m","a","r","y">>}

SummaryPhrases ==
    {<<"b","e","g","i","n","n","i","n","g"," ","b","a","l","a","n","c","e">>, <<"e","n","d","i","n","g"," ","b","a","l","a","n","c","e">>, <<"t","o","t","a","l"," ","c","r","e","d","i","t","s">>, <<"t","o","t","a","l"," ","d","e","b","i","t","s">>}

date_value(columns, cells) ==
    PyOr(PyOr(RowGet(columns, cells, <<"d","a","t","e">>), RowGet(columns, cells, <<"p","o","s","t","e","d","_","d","a","t","e">>)),
         RowGet(columns, cells, <<"t","r","a","n","s","a","c","t","i","o","n","_","d","a","t","e">>))

amount_value(columns, cells) ==
    PyOr(RowGet(columns, cells, <<"a","m","o","u","n","t">>), RowGet(columns, cells, <<"t","r","a","n","s","a","c","t","i","o","n","_","a","m","o","u","n","t">>))

\* pd.isna(x) or x == ''
IsMissing(v) == IsNa(v) \/ (v.k = "str" /\ v.s = <<>>)

LooksLikeSummary(v) ==
    v.k = "str" /\ \E word \in SummaryWords : Contains(word, str_lower(PyStr(v)))

amount_str(v) == str_strip(str_replace(str_replace(PyStr(v), ",", <<>>), "$", <<>>))

name_of(columns, cells) ==
    str_strip(PyStr(PyOr(PyOr(PyOr(RowGet(columns, cells, <<"d","e","s","c","r","i","p","t","i","o","n">>),
                                   RowGet(columns, cells, <<"n","a","m","e">>)),
                              RowGet(columns, cells, <<"p","a","y","e","e">>)),
                         StrV(<<"N","/","A">>))))

memo_of(columns, cells) ==
    str_strip(PyStr(PyOr(PyOr(RowGet(columns, cells, <<"m","e","m","o">>),
                              RowGet(columns, cells, <<"d","e","s","c","r","i","p","t","i","o","n">>)),
                         StrV(name_of(columns, cells)))))

IsSummaryName(name) == \E word \in SummaryPhrases : Contains(word, str_lower(name))

trntype(amount) == IF amount < 0 THEN "DEBIT" ELSE "CREDIT"

Fitid(count) == count + 1

Truncate(s, n) == SubSeq(s, 1, Min(n, Len(s)))

NoRecord ==
    [TRNTYPE |-> "", DTPOSTED |-> <<>>, TRNAMT |-> <<>>, FITID |-> 0,
     NAME |-> <<>>, MEMO |-> <<>>, amount |-> 0, row |-> 0]

Silent == [kind |-> "silent", reason |-> "", rec |-> NoRecord]

Skipped(reason) == [kind |-> "skipped", reason |-> reason, rec |-> NoRecord]

\* A row with its date and amount in hand: the amount is cleaned and
\* converted, the description looked up, the record appended.
emit_record(columns, row, count, date, amount, name) ==
    IF ~amount.ok THEN Skipped("could not convert string to float")
    ELSE IF IsSummaryName(name) THEN Silent
    ELSE [kind |-> "record", reason |-> "",
          rec |-> [TRNTYPE |-> trntype(amount.c),
                   DTPOSTED |-> date.ymd,
                   TRNAMT |-> Format2f(amount.c),
                   FITID |-> Fitid(count),
                   NAME |-> Truncate(name, 32),
                   MEMO |-> Truncate(memo_of(columns, row.cells), 255),
                   amount |-> amount.c,
                   row |-> row.idx]]

\* Variant of convert_amount that passes over a missing or blank amount
\* without an entry in skipped_rows.
convert_amount_silent(columns, row, count, date, av, text) ==
    IF IsMissing(av) THEN Silent
    ELSE IF text = <<>> \/ text = <<"n","a","n">> THEN Silent
    ELSE emit_record(columns, row, count, date, ParseFloat(text), name_of(columns, row.cells))

convert_amount(columns, row, count, date, av, text) ==
    IF IsMissing(av) THEN Skipped("Missing amount")
    ELSE IF text = <<>> \/ text = <<"n","a","n">> THEN Skipped("Empty amount")
    ELSE emit_record(columns, row, count, date, ParseFloat(text), name_of(columns, row.cells))

convert_date(columns, row, count, dv, date) ==
    IF IsMissing(dv) THEN Silent
    ELSE IF LooksLikeSummary(dv) THEN Silent
    ELSE IF ~date.ok THEN Skipped("Invalid date")
    ELSE convert_amount(columns, row, count, date, amount_value(columns, row.cells),
                        amount_str(amount_value(columns, row.cells)))

\* The body of the loop for one row: the row is passed over in silence
\* (continue), reported in skipped_rows, or emitted as a STMTTRN record.
convert_row(columns, row, count) ==
    convert_date(columns, row, count, date_value(columns, row.cells),
                 to_datetime(date_value(columns, row.cells)))

\* Variant of CountAfter that counts every row iterated.
CountAfterEveryRow(count, kind) == count + 1

\* transaction_count += 1 after a record, and only then.
CountAfter(count, kind) == IF kind = "record" THEN count + 1 ELSE count

\* f"Row {i+1}: {reason}"
SkipEntry(row, reason) == [row |-> row.idx + 1, reason |-> reason]

(***************************************************************************)
(* The inputs.  Every line keeps its date in the first field, its amount   *)
(* in the second and its description in the third, and no line repeats a   *)
(* field, so that pandas renames no column.                                *)
(***************************************************************************)
SeqsUpTo(S, n) == UNION {[1..m -> S] : m \in 0..n}

SampleChars == {"\t", ";", ",", "a"}

Exts == {<<"c","s","v">>, <<"X","L","S","X">>}

HeaderLine == << <<"D","a","t","e">>, <<"A","m","o","u","n","t">>, <<"D","e","s","c","r","i","p","t","i","o","n">> >>

\* Lines around the transaction table: banners, a line of four fields with
\* 'date' in its third, headers whose names resolve to no date or to no
\* amount column, and one transaction.
ParsePool ==
    { << <<"A","c","c","o","u","n","t"," ","S","u","m","m","a","r","y">> >>,
      << <<"D","a","t","e"," ","r","a","n","g","e">>, <<>>, <<"A","m","o","u","n","t"," ","S","u","m","m","a","r","y">> >>,
      << <<"R","e","f">>, <<"A","m","o","u","n","t">>, <<"D","a","t","e">>, <<"M","e","m","o">> >>,
      HeaderLine,
      << <<"D","a","t","e"," ","P","o","s","t","e","d">>, <<"A","m","o","u","n","t">>, <<"D","e","s","c","r","i","p","t","i","o","n">> >>,
      << <<"P","o","s","t","e","d"," ","D","a","t","e">>, <<"A","m","o","u","n","t"," ","U","S","D">>, <<"D","e","s","c","r","i","p","t","i","o","n">> >>,
      << <<"0","1","/","1","5","/","2","0","2","4">>, <<"-","4",".","5","0">>, <<"C","o","f","f","e","e">> >> }

\* Transaction rows under the header line.
DataPool ==
    { << <<"0","1","/","1","5","/","2","0","2","4">>, <<"-","4",".","5","0">>, <<"C","o","f","f","e","e">> >>,
      << <<"0","1","/","1","6","/","2","0","2","4">>, <<"0",".","0","0">>, <<"F","e","e"," ","w","a","i","v","e","r">> >>,
      << <<"0","1","/","1","7","/","2","0","2","4">>, <<"$","1",",","2","3","4",".","5","6">>, <<"P","a","y","r","o","l","l">> >>,
      << <<"0","1","/","1","8","/","2","0","2","4">>, <<"(","1","2",".","0","0",")">>, <<"R","e","f","u","n","d">> >>,
      << <<"0","1","/","1","9","/","2","0","2","4">>, <<"a","b","c">>, <<"O","o","p","s">> >>,
      << <<"0","2","/","3","0","/","2","0","2","4">>, <<"5",".","0","0">>, <<"B","a","d"," ","d","a","y">> >>,
      << <<"T","o","t","a","l">>, <<"5",".","0","0">>, <<"S","u","m">> >>,
      << <<>>, <<"5",".","0","0">>, <<"U","n","d","a","t","e","d">> >>,
      << <<"0","1","/","2","0","/","2","0","2","4">>, <<>>, <<"N","o"," ","a","m","o","u","n","t">> >>,
      << <<"0","1","/","2","1","/","2","0","2","4">>, <<" "," ">>, <<"B","l","a","n","k"," ","a","m","o","u","n","t">> >>,
      << <<"0","1","/","2","2","/","2","0","2","4">>, <<"5",".","0","0">>, <<"E","n","d","i","n","g"," ","B","a","l","a","n","c","e">> >> }

ParseFiles == {[ext |-> e, lines |-> l] : e \in Exts, l \in SeqsUpTo(ParsePool, MaxLines)}

ConvertFiles ==
    {[ext |-> e, lines |-> <<HeaderLine>> \o l] : e \in Exts, l \in SeqsUpTo(DataPool, MaxRows)}

\* With a first data line wider than the header line, read_csv takes the
\* leading columns as the index; those files are outside the inputs.
WiderAfter(content, h) ==
    /\ h # NoHeader
    /\ Len(content) >= h + 2
    /\ Len(content[h + 2]) > Len(content[h + 1])

ImplicitIndex(content) ==
    content # <<>> /\ WiderAfter(content, find_transaction_header(read_csv_raw(content)))

NoImplicitIndex(f) == IsExcel(f) \/ ~ImplicitIndex(cleaned_lines(f.lines))

Files == {f \in ParseFiles \cup ConvertFiles : NoImplicitIndex(f)}

(***************************************************************************)
(* The upload handler: parse_bofa_file, then convert_to_qfx.               *)
(***************************************************************************)
Init ==
    /\ file \in Files
    /\ pc = "upload"
    /\ error = ""
    /\ sample = <<>>
    /\ delimiter = ""
    /\ raw_df = <<>>
    /\ header_row_index = NoHeader
    /\ df = NoFrame
    /\ i = 0
    /\ transaction_count = 0
    /\ skipped_rows = <<>>
    /\ qfx = <<>>

\* parse_bofa_file returns the table, or raises and the handler's except
\* branch reports the error.
Parsed(result) ==
    /\ raw_df' = result.raw_df
    /\ header_row_index' = result.header_row_index
    /\ df' = result.df
    /\ error' = result.error
    /\ pc' = IF result.error = "" THEN "convert" ELSE "error"
    /\ UNCHANGED <<sample, delimiter, file, i, transaction_count, skipped_rows, qfx>>

ParseExcel ==
    /\ pc = "upload"
    /\ IsExcel(file)
    /\ Parsed(parse_excel(file))

ParseCsv ==
    /\ pc = "upload"
    /\ ~IsExcel(file)
    /\ Parsed(parse_csv(file))

\* One pass of the loop of convert_to_qfx; i counts the rows iterated.
Converted(row, result) ==
    /\ qfx' = IF result.kind = "record" THEN Append(qfx, result.rec) ELSE qfx
    /\ skipped_rows' = IF result.kind = "skipped"
                       THEN Append(skipped_rows, SkipEntry(row, result.reason))
                       ELSE skipped_rows
    /\ transaction_count' = CountAfter(transaction_count, result.kind)
    /\ i' = i + 1
    /\ UNCHANGED <<sample, delimiter, file, pc, error, raw_df, header_row_index, df>>

ConvertRow ==
    /\ pc = "convert"
    /\ i < Len(df.rows)
    /\ Converted(df.rows[i + 1], convert_row(df.columns, df.rows[i + 1], transaction_count))

\* convert_to_qfx returns qfx, transaction_count and skipped_rows.
ConvertReturn ==
    /\ pc = "convert"
    /\ i = Len(df.rows)
    /\ pc' = "done"
    /\ UNCHANGED <<sample, delimiter, file, error, raw_df, header_row_index, df, i,
                   transaction_count, skipped_rows, qfx>>

Next == ParseExcel \/ ParseCsv \/ ConvertRow \/ ConvertReturn

Spec == Init /\ [][Next]_vars

(***************************************************************************)
(* detect_delimiter on its own, over every sample text.                    *)
(***************************************************************************)
InitDelim ==
    /\ sample \in SeqsUpTo(SampleChars, MaxSample)
    /\ delimiter = ""
    /\ pc = "sample"
    /\ error = ""
    /\ file = [ext |-> <<>>, lines |-> <<>>]
    /\ raw_df = <<>>
    /\ header_row_index = NoHeader
    /\ df = NoFrame
    /\ i = 0
    /\ transaction_count = 0
    /\ skipped_rows = <<>>
    /\ qfx = <<>>

DetectDelimiter ==
    /\ pc = "sample"
    /\ delimiter' = detect_delimiter(sample)
    /\ pc' = "detected"
    /\ UNCHANGED <<sample, file, error, raw_df, header_row_index, df, i,
                   transaction_count, skipped_rows, qfx>>

NextDelim == DetectDelimiter

SpecDelim == InitDelim /\ [][NextDelim]_vars


(***************************************************************************)
(* The properties.  They read the rows of the parsed table and the lists   *)
(* that convert_to_qfx returned; the cells of a row are looked up by the   *)
(* column names of the table, independently of the loop body.              *)
(***************************************************************************)
Returned == pc = "done"

TableRows == {n \in 1..Len(df.rows) : TRUE}

\* The records and the skipped_rows entries that a table row produced.
RecordsOf(row) == {k \in 1..Len(qfx) : qfx[k].row = row.idx}

EntriesOf(row) == {k \in 1..Len(skipped_rows) : skipped_rows[k].row = row.idx + 1}

\* The cell under the first of the names that is a column of the table.
FirstPresent(present, cells) ==
    IF present = <<>> THEN None ELSE cells[ColumnAt(df.columns, present[1])]

CellOf(cells, names) ==
    FirstPresent(SelectSeq(names, LAMBDA c : ColumnAt(df.columns, c) # 0), cells)

DateNames == << <<"d","a","t","e">>, <<"p","o","s","t","e","d","_","d","a","t","e">>, <<"t","r","a","n","s","a","c","t","i","o","n","_","d","a","t","e">> >>
AmountNames == << <<"a","m","o","u","n","t">>, <<"t","r","a","n","s","a","c","t","i","o","n","_","a","m","o","u","n","t">> >>
DescriptionNames == << <<"d","e","s","c","r","i","p","t","i","o","n">>, <<"n","a","m","e">>, <<"p","a","y","e","e">> >>

DateCell(row) == CellOf(row.cells, DateNames)
AmountCell(row) == CellOf(row.cells, AmountNames)
DescriptionCell(row) == CellOf(row.cells, DescriptionNames)

IsText(v) == v.k = "str"

DateEmpty(v) == v.k = "nan" \/ (IsText(v) /\ v.s = <<>>)

DateKeyword(v) ==
    IsText(v) /\ \E word \in {<<"b","e","g","i","n","n","i","n","g">>, <<"e","n","d","i","n","g">>, <<"b","a","l","a","n","c","e">>, <<"t","o","t","a","l">>, <<"s","u","m","m","a","r","y">>} :
                     Contains(word, str_lower(v.s))

DateParses(v) == IsText(v) /\ ParseDateText(str_strip(v.s)).ok

AmountEmpty(v) == v.k = "nan" \/ (IsText(v) /\ str_strip(v.s) = <<>>)

AmountNumeric(v) == v.k = "num" \/ (IsText(v) /\ ParseFloat(v.s).ok)

NumericValue(v) == IF v.k = "num" THEN v.c ELSE ParseFloat(v.s).c

SummaryDescription(v) ==
    IsText(v) /\ \E phrase \in {<<"b","e","g","i","n","n","i","n","g"," ","b","a","l","a","n","c","e">>, <<"e","n","d","i","n","g"," ","b","a","l","a","n","c","e">>,
                                <<"t","o","t","a","l"," ","c","r","e","d","i","t","s">>, <<"t","o","t","a","l"," ","d","e","b","i","t","s">>} :
                     Contains(phrase, str_lower(v.s))

\* A row with a date that parses, a numeric amount and a description that
\* is no summary phrase.
ValidRow(row) ==
    /\ DateParses(DateCell(row))
    /\ AmountNumeric(AmountCell(row))
    /\ ~SummaryDescription(DescriptionCell(row))

\* The signed value of a currency string: '$' and ',' removed, a leading
\* minus kept, a value in parentheses negative.
InParens(t) == Len(t) >= 2 /\ t[1] = "(" /\ t[Len(t)] = ")"

CurrencyOf(t) ==
    IF InParens(t) THEN Negated(ParseFloat(SubSeq(t, 2, Len(t) - 1))) ELSE ParseFloat(t)

CurrencyValue(s) == CurrencyOf(str_strip(str_replace(str_replace(s, "$", <<>>), ",", <<>>)))

\* C1: the FITIDs of the emitted records, in output order, are 1, 2, ..., n
\* with n the transaction_count: a row that emits no record consumes no
\* number, so the FITIDs are gap-free and unique.
C1_FitidsGapFree ==
    /\ Len(qfx) = transaction_count
    /\ \A k \in 1..Len(qfx) : qfx[k].FITID = k

\* Two records with a reported row and a row passed over between and
\* around them.
C1_GapFreeAcrossSkips ==
    /\ Returned
    /\ Len(qfx) >= 2
    /\ Len(skipped_rows) >= 1
    /\ \E k \in 1..(Len(qfx) - 1) : qfx[k + 1].row > qfx[k].row + 1
    /\ qfx[Len(qfx)].FITID = Len(qfx)

\* C2: a row whose date or amount cannot be parsed adds exactly one entry to
\* skipped_rows and no record, and every valid row before and after it is
\* converted to one record.
C2_Unparseable(row) ==
    /\ IsText(DateCell(row))
    /\ ~DateEmpty(DateCell(row))
    /\ ~DateKeyword(DateCell(row))
    /\ \/ ~DateParses(DateCell(row))
       \/ /\ IsText(AmountCell(row))
          /\ ~AmountEmpty(AmountCell(row))
          /\ ~CurrencyValue(AmountCell(row).s).ok

C2_RowSkipTolerance ==
    Returned =>
        \A n \in TableRows :
            /\ C2_Unparseable(df.rows[n]) =>
                   /\ Cardinality(EntriesOf(df.rows[n])) = 1
                   /\ RecordsOf(df.rows[n]) = {}
            /\ ValidRow(df.rows[n]) => Cardinality(RecordsOf(df.rows[n])) = 1

\* C3: find_transaction_header returns the smallest index of a row with
\* 'date' in one of its first two cells and a cell with 'amount' and without
\* 'summary'; no earlier row has both.
C3_CellText(v) == str_lower(PyStr(v))

C3_Qualifies(cells) ==
    /\ \E j \in 1..Len(cells) : j <= 2 /\ Contains(<<"d","a","t","e">>, C3_CellText(cells[j]))
    /\ \E j \in 1..Len(cells) :
           /\ Contains(<<"a","m","o","u","n","t">>, C3_CellText(cells[j]))
           /\ ~Contains(<<"s","u","m","m","a","r","y">>, C3_CellText(cells[j]))

C3_FirstQualifyingRow ==
    pc # "upload" =>
        IF \E n \in 1..Len(raw_df) : C3_Qualifies(raw_df[n].cells)
        THEN /\ header_row_index \in 0..(Len(raw_df) - 1)
             /\ C3_Qualifies(raw_df[header_row_index + 1].cells)
             /\ \A m \in 1..header_row_index : ~C3_Qualifies(raw_df[m].cells)
        ELSE header_row_index = NoHeader

\* The banner 'Account Summary' at row 0, a banner with 'date' and 'amount
\* summary' at row 1, the header at row 2.
C3_HeaderBelowBanners ==
    /\ pc # "upload"
    /\ header_row_index = 2
    /\ raw_df[1].cells[1] = StrV(<<"A","c","c","o","u","n","t"," ","S","u","m","m","a","r","y">>)
    /\ raw_df[2].cells[1] = StrV(<<"D","a","t","e"," ","r","a","n","g","e">>)
    /\ raw_df[3].cells[1] = StrV(<<"D","a","t","e">>)

\* C4: when no row of the grid qualifies as a header row, parsing ends in
\* the header-not-found error, in the CSV and in the spreadsheet path, and
\* the conversion is not reached: no record, no entry, no row iterated.
C4_NoHeaderIsTerminal ==
    (pc # "upload" /\ \A n \in 1..Len(raw_df) : ~C3_Qualifies(raw_df[n].cells)) =>
        /\ pc = "error"
        /\ error \in {"header", "read"}
        /\ raw_df # <<>> => error = "header"
        /\ df = NoFrame
        /\ i = 0
        /\ transaction_count = 0
        /\ qfx = <<>>
        /\ skipped_rows = <<>>

\* A grid of several rows, none of them a header.
C4_HeaderlessGrid ==
    /\ pc = "error"
    /\ error = "header"
    /\ Len(raw_df) >= 2
    /\ \E n \in 1..Len(raw_df) : Contains(<<"d","a","t","e">>, C3_CellText(raw_df[n].cells[1]))
    /\ qfx = <<>>

\* C5: when the header row yields no column for the Date role or none for
\* the Amount role, the pipeline fails before any record is produced; it
\* neither converts nor completes.
C5_HasRole(names) == \E j \in 1..Len(df.columns) : \E k \in 1..Len(names) : df.columns[j] = names[k]

C5_MissingRoleFails ==
    pc \in {"convert", "done"} => C5_HasRole(DateNames) /\ C5_HasRole(AmountNames)

\* C6 as stated: a row with an empty date cell, a keyword in its date text
\* or an empty or blank amount cell leaves neither a record nor an entry in
\* skipped_rows.
C6_SkippedEntirely ==
    Returned =>
        \A n \in TableRows :
            (\/ DateEmpty(DateCell(df.rows[n]))
             \/ DateKeyword(DateCell(df.rows[n]))
             \/ AmountEmpty(AmountCell(df.rows[n]))) =>
                /\ RecordsOf(df.rows[n]) = {}
                /\ EntriesOf(df.rows[n]) = {}

\* C6: a row with an empty date cell or a keyword in its date text leaves
\* neither a record nor an entry in skipped_rows; a row with an empty or
\* blank amount cell leaves no record, and under a date cell that is there,
\* not empty and no keyword it leaves one entry in skipped_rows: 'Invalid
\* date' when the date does not parse, 'Missing amount' or 'Empty amount'
\* when it does.
C6_DatePassedOver(row) ==
    \/ DateCell(row) = None
    \/ DateEmpty(DateCell(row))
    \/ DateKeyword(DateCell(row))

C6_AmountReasons(row) ==
    IF DateParses(DateCell(row)) THEN {"Missing amount", "Empty amount"} ELSE {"Invalid date"}

C6_EmptyAmountIsReported ==
    Returned =>
        \A n \in TableRows :
            /\ C6_DatePassedOver(df.rows[n]) =>
                   /\ RecordsOf(df.rows[n]) = {}
                   /\ EntriesOf(df.rows[n]) = {}
            /\ AmountEmpty(AmountCell(df.rows[n])) =>
                   /\ RecordsOf(df.rows[n]) = {}
                   /\ ~C6_DatePassedOver(df.rows[n]) =>
                          /\ Cardinality(EntriesOf(df.rows[n])) = 1
                          /\ \A k \in EntriesOf(df.rows[n]) :
                                 skipped_rows[k].reason \in C6_AmountReasons(df.rows[n])

\* A table with a row without a date, a row without an amount and a row
\* with a blank amount: the first passed over, the others reported.
C6_EmptyAmountReported ==
    /\ Returned
    /\ \E n \in TableRows :
           DateEmpty(DateCell(df.rows[n])) /\ EntriesOf(df.rows[n]) = {}
    /\ \E n \in TableRows :
           /\ AmountCell(df.rows[n]) = NaN
           /\ \E k \in EntriesOf(df.rows[n]) : skipped_rows[k].reason = "Missing amount"
    /\ \E n \in TableRows :
           /\ AmountCell(df.rows[n]) = StrV(<<" "," ">>)
           /\ \E k \in EntriesOf(df.rows[n]) : skipped_rows[k].reason = "Empty amount"

\* C7 as stated: detect_delimiter falls back to the comma when no candidate
\* dominates: on a sample without any of the three separators, and on a
\* sample with a few tabs and neither semicolons nor commas.
C7_Count(ch) == Len(SelectSeq(sample, LAMBDA c : c = ch))

C7_FallsBackToComma ==
    (/\ pc = "detected"
     /\ C7_Count("\t") <= 5
     /\ C7_Count(";") = 0
     /\ C7_Count(",") = 0) => delimiter = ","

\* C7: detect_delimiter selects the tab when it occurs more than 5 times,
\* else the semicolon when it outnumbers the comma, else the comma when it
\* occurs and no tab does, and it falls back to the tab: on a sample without
\* any of the three separators, and on a sample with a few tabs.
C7_FallsBackToTab ==
    pc = "detected" =>
        /\ delimiter \in {"\t", ";", ","}
        /\ C7_Count("\t") > 5 => delimiter = "\t"
        /\ (C7_Count("\t") <= 5 /\ C7_Count(";") > C7_Count(",")) => delimiter = ";"
        /\ delimiter = "," <=>
               (C7_Count("\t") = 0 /\ C7_Count(",") > 0 /\ C7_Count(";") <= C7_Count(","))
        /\ (C7_Count(";") = 0 /\ C7_Count(",") = 0) => delimiter = "\t"

\* A sample without separators, resolved to the tab.
C7_NoSeparatorGivesTab ==
    /\ pc = "detected"
    /\ sample # <<>>
    /\ C7_Count("\t") = 0 /\ C7_Count(";") = 0 /\ C7_Count(",") = 0
    /\ delimiter = "\t"

\* C8: a row with a date that parses and a supported currency string as its
\* amount ('$' and ',' stripped, a leading minus kept, parentheses negative)
\* produces a record with that value as its TRNAMT.
C8_Supported(row) ==
    /\ DateParses(DateCell(row))
    /\ ~SummaryDescription(DescriptionCell(row))
    /\ IsText(AmountCell(row))
    /\ CurrencyValue(AmountCell(row).s).ok

C8_AmountNormalized ==
    Returned =>
        \A n \in TableRows :
            C8_Supported(df.rows[n]) =>
                \E k \in RecordsOf(df.rows[n]) :
                    /\ qfx[k].amount = CurrencyValue(AmountCell(df.rows[n]).s).c
                    /\ qfx[k].TRNAMT = Format2f(CurrencyValue(AmountCell(df.rows[n]).s).c)

\* C9: in the CSV path the header line of the returned table is the line of
\* the row that find_transaction_header located, and the data rows are read
\* from lines after it.
C9_Located == raw_df[header_row_index + 1].line

C9_HeaderIsLocatedRow ==
    (pc \in {"convert", "done"} /\ ~IsExcel(file)) =>
        /\ df.header_line = C9_Located
        /\ \A n \in TableRows : df.rows[n].line > C9_Located

\* C10: every valid row produces exactly one record, in source order, DEBIT
\* below zero and CREDIT at zero or above, and is not reported in
\* skipped_rows; an amount of 0 gives a CREDIT record.
C10_Type(c) == IF c < 0 THEN "DEBIT" ELSE "CREDIT"

C10_ValidRowsConverted ==
    Returned =>
        /\ \A n \in TableRows :
               ValidRow(df.rows[n]) =>
                   /\ Cardinality(RecordsOf(df.rows[n])) = 1
                   /\ EntriesOf(df.rows[n]) = {}
                   /\ \A k \in RecordsOf(df.rows[n]) :
                          /\ qfx[k].amount = NumericValue(AmountCell(df.rows[n]))
                          /\ qfx[k].TRNTYPE = C10_Type(NumericValue(AmountCell(df.rows[n])))
        /\ \A k \in 1..Len(qfx) : \A l \in 1..Len(qfx) : k < l => qfx[k].row < qfx[l].row
====
